---- MODULE Spec2Model ----
(***************************************************************************)
(* Model of the ArtNet client of deno_artnet (src/lib/Artnet.ts,           *)
(* src/lib/mod.ts): the per-universe channel buffer with its change        *)
(* watermark, the ArtDmx frame encoder, and the throttled send scheduler    *)
(* with its refresh timer and its 25 ms cooldown.                           *)
(*                                                                         *)
(* JavaScript runs every callback to completion, so each action is one     *)
(* callback: a call of set (with the synchronous part of send), a firing   *)
(* of the refresh interval, the continuation of send after sleep(25), the  *)
(* completion callback of socket.send, and close.  Time is the action      *)
(* Tick; timers fire when they are due (time does not pass a due timer).   *)
(***************************************************************************)
EXTENDS Integers, Sequences, FiniteSets, TLC

(* ---------------- program constants ---------------- *)

\* new Array(512).fill(0): the size of a freshly allocated channel buffer
ChannelCount == 512
\* refresh ? 512 : this.dataChanged[universe]: the length of a full frame
FullLength == 512
\* await sleep(25): the cooldown after which throttled is cleared
SleepMs == 25
\* an index of this.interval that holds no armed timer; also a sleep that is
\* not pending
NoTimer == -1
\* a hole of a JavaScript array (an index below length never assigned)
Hole == -1

\* config.host || '255.255.255.255': the broadcast address
Broadcast == "255.255.255.255"
\* config.port || 6454
DefaultPort == 6454

\* new Array(512).fill(0) of triggerPackage: the payload of a trigger frame
TriggerPayload == 512

(* ---------------- bounds of the model ---------------- *)

\* the longest time that passes in one Tick
TimeStep == 10
\* the frames the Transport holds at once per universe before it reports one
MaxInFlight == 2
\* the refresh periods a Config may carry (config.refresh)
RefreshShort == 10
RefreshLong == 30

\* the universes the callers use
Universes == {0, 1}
\* The calls of set the callers make: [arr, vals, channel, universe].  A call
\* with a number is arr = FALSE and vals = <<number>>; a call with an array
\* is arr = TRUE.  Channels are 1-indexed.
Call(arr, vals, channel, universe) ==
    [arr |-> arr, vals |-> vals, channel |-> channel, universe |-> universe]

\* a caller that works on universe 0: single values and an array written
\* at the last channel
CallsOne ==
    { Call(FALSE, <<255>>, 1, 0),
      Call(FALSE, <<10>>, 2, 0),
      Call(TRUE, <<7, 7>>, ChannelCount, 0) }

\* a caller that also sets the value a fresh buffer holds
CallsZero ==
    { Call(FALSE, <<0>>, 1, 0),
      Call(FALSE, <<255>>, 1, 0) }

\* a caller that works on two universes
CallsTwo ==
    { Call(FALSE, <<255>>, 1, 0),
      Call(FALSE, <<255>>, 1, 1) }

\* a caller with two values, for the instance with the short refresh
CallsShort ==
    { Call(FALSE, <<10>>, 2, 0),
      Call(FALSE, <<255>>, 1, 0) }

\* a caller of the instance that always sends all channels
CallsAll ==
    { Call(FALSE, <<255>>, 1, 0),
      Call(TRUE, <<7, 7>>, ChannelCount, 0) }

\* the instances: the Config they are constructed with and the calls their
\* callers make
Scenario(r, all, cs, closes, outcomes) ==
    [refresh |-> r, sendAll |-> all, calls |-> cs,
     env |-> [closes |-> closes, outcomes |-> outcomes]]

Scenarios ==
    { Scenario(RefreshShort, FALSE, CallsShort, TRUE, {"ok", "error"}),
      Scenario(RefreshLong, FALSE, CallsOne, FALSE, {"ok", "error"}),
      Scenario(RefreshLong, FALSE, CallsZero, TRUE, {"ok"}),
      Scenario(RefreshLong, TRUE, CallsAll, TRUE, {"ok"}),
      Scenario(RefreshLong, FALSE, CallsTwo, FALSE, {"ok"}) }

\* the hosts and ports the callers pass to setHost and setPort
Hosts == {Broadcast, "10.0.0.255"}
Ports == {DefaultPort, DefaultPort + 1}

\* the arguments the callers pass to trigger: <<oem, key, subkey>>
TriggerCalls ==
    { <<65535, 255, 0>>, <<0, 0, 0>>, <<4660, 1, 2>>, <<74565, 259, 255>> }

\* the arguments artdmxPackage is applied to: the universes and the lengths
PackageUniverses == {0, 255, 256, 32767}
PackageLengths == {1, 2, 511, 512}

Min(S) == CHOOSE x \in S : \A y \in S : x <= y

VARIABLES
    host,         \* this.host
    port,         \* this.port
    calls,        \* the calls of set the callers of the instance make
    env,          \* whether the caller calls close, and what the Transport
                  \* reports
    refresh,      \* this.refresh (config.refresh || 4000)
    sendAll,      \* this.sendAll
    data,         \* this.data[universe]: <<>> while not allocated
    dataChanged,  \* this.dataChanged[universe]: undefined is 0
    throttled,    \* this.throttled[universe]: undefined is FALSE
    interval,     \* this.interval[universe]: time until the timer fires
    handles,      \* the timers of setInterval not yet cleared, per universe
    dropped,      \* history: per universe and caller, the most positions a
                  \* frame would have carried that a Busy send did not
                  \* build since the last frame was handed over
    cooldown,     \* the pending sleep(25) of send, per universe
    inflight,     \* the frames the Transport has not yet reported, oldest
                  \* first: "sleep" while the send that handed the frame over
                  \* is at await sleep(25), "wait" once it is past it
    handed,       \* history: per universe and position, the value most
                  \* recently handed to the Transport in a frame, or for a
                  \* position no frame has carried the value it had when the
                  \* last frame was handed over (0 before the first frame)
    reach,        \* history: the most positions a frame of the universe
                  \* has carried
    owner,        \* the caller of the send of each frame of inflight: "set",
                  \* which returns the promise of send, or "timer", which
                  \* discards it (void)
    held,         \* the report of the Transport that came while its send is
                  \* still at await sleep(25): the promise of send settles
                  \* with it after the sleep
    sinceFrame,   \* time since the last frame of the universe was handed
                  \* over, at most SleepMs (SleepMs: SleepMs or more)
    sinceAttempt, \* time since send was last called for the universe, at most
                  \* refresh
    closed,       \* socket.close() was called
    ev            \* what the last callback did

vars == <<host, port, calls, env, refresh, sendAll, data, dataChanged,
          throttled, interval, handles, dropped, handed, reach, cooldown,
          inflight, owner, held, sinceFrame, sinceAttempt, closed, ev>>

\* What a callback did: op is the callback, u its universe, res its result
\* ("sent": a frame was handed to the Transport, "busy": send rejected the
\* call, "noop": set did not call send, "ok" and "error": the report of the
\* Transport), frame the frame handed over, changed whether set stored a
\* value that differs, gap the time since the frame before this one.
\* to and val are the promise of send that settled in the callback: to is
\* the caller that receives it ("set", or "timer" for none: void), val the
\* value ("ok": null, "error": the error of the Transport).
Event(op, u, res, frame, changed, gap) ==
    [op |-> op, u |-> u, res |-> res, frame |-> frame, changed |-> changed,
     gap |-> gap, to |-> "none", val |-> "none"]

\* a callback in which the promise of a send settles
Outcome(op, u, res, to, val) ==
    [op |-> op, u |-> u, res |-> res, frame |-> <<>>, changed |-> FALSE,
     gap |-> NoTimer, to |-> to, val |-> val]

\* no report is held
NoOutcome == [to |-> "none", val |-> "none"]

Init ==
    /\ host = Broadcast
    /\ port = DefaultPort
    /\ \E s \in Scenarios :
          /\ calls = s.calls
          /\ env = s.env
          /\ refresh = s.refresh
          /\ sendAll = s.sendAll
    /\ data = [u \in Universes |-> <<>>]
    /\ dataChanged = [u \in Universes |-> 0]
    /\ throttled = [u \in Universes |-> FALSE]
    /\ interval = [u \in Universes |-> NoTimer]
    /\ cooldown = [u \in Universes |-> NoTimer]
    /\ inflight = [u \in Universes |-> <<>>]
    /\ sinceFrame = [u \in Universes |-> NoTimer]
    /\ sinceAttempt = [u \in Universes |-> NoTimer]
    /\ handles = [u \in Universes |-> 0]
    /\ dropped = [u \in Universes |-> [set |-> 0, timer |-> 0]]
    /\ handed = [u \in Universes |-> <<>> \o [p \in 1..ChannelCount |-> 0]]
    /\ reach = [u \in Universes |-> 0]
    /\ owner = [u \in Universes |-> <<>>]
    /\ held = [u \in Universes |-> NoOutcome]
    /\ closed = FALSE
    /\ ev = Event("init", 0, "none", <<>>, FALSE, NoTimer)

(* ---------------- the channel buffer ---------------- *)

\* if (!this.data[universe]) this.data[universe] = new Array(512).fill(0)
Allocate(d, universe) ==
    IF d[universe] = <<>>
    THEN [d EXCEPT ![universe] = <<>> \o [i \in 1..ChannelCount |-> 0]]
    ELSE d

\* array[index] = value of JavaScript, index 0-based: an index at or past
\* length grows the array and leaves holes below it
Store(a, index, value) ==
    IF index + 1 <= Len(a)
    THEN [a EXCEPT ![index + 1] = value]
    ELSE a \o [i \in 1..(index - Len(a)) |-> Hole] \o <<value>>

\* array[index] of JavaScript: undefined (a hole) past the end
Load(a, index) == IF index + 1 <= Len(a) THEN a[index + 1] ELSE Hole

\* the body of the for loop of set, from i on: the buffer of the universe
\* and its watermark after the values are written
RECURSIVE SetLoop(_, _, _, _, _)
SetLoop(a, wm, vals, channel, i) ==
    IF i >= Len(vals) THEN [a |-> a, wm |-> wm]
    ELSE LET index == channel + i - 1 IN
         IF Load(a, index) # vals[i + 1]
         THEN SetLoop(Store(a, index, vals[i + 1]),
                      IF index + 1 > wm THEN index + 1 ELSE wm,
                      vals, channel, i + 1)
         ELSE SetLoop(a, wm, vals, channel, i + 1)

\* fault: a set that moves the watermark to the position it wrote, also
\* downwards
SetOneLatest(a, wm, value, channel) ==
    IF Load(a, channel - 1) # value
    THEN [a |-> Store(a, channel - 1, value), wm |-> channel]
    ELSE [a |-> a, wm |-> wm]

\* the else-if branch of set: one number
SetOne(a, wm, value, channel) ==
    IF Load(a, channel - 1) # value
    THEN [a |-> Store(a, channel - 1, value),
          wm |-> IF channel > wm THEN channel ELSE wm]
    ELSE [a |-> a, wm |-> wm]

\* the writes of set before it decides to send
SetWrite(a, wm, c) ==
    IF c.arr /\ Len(c.vals) > 0 THEN SetLoop(a, wm, c.vals, c.channel, 0)
    ELSE IF ~c.arr THEN SetOne(a, wm, c.vals[1], c.channel)
    ELSE [a |-> a, wm |-> wm]

(* ---------------- the frame encoder ---------------- *)

\* Buffer.from(array): a number is stored modulo 256, a hole as 0
ToByte(v) == IF v = Hole THEN 0 ELSE v % 256

\* array.slice(0, n)
Slice(a, n) == SubSeq(a, 1, IF n < Len(a) THEN n ELSE Len(a))

\* fault: a trigger frame with the bytes of oem in the other order
triggerPackageLowFirst(oem, key, subkey) ==
    <<65, 114, 116, 45, 78, 101, 116, 0, 0, 153, 0, 14, 0, 0,
      oem % 256, (oem \div 256) % 256, ToByte(key), ToByte(subkey)>>
    \o [i \in 1..TriggerPayload |-> 0]

\* triggerPackage(oem, key, subkey); new Uint8Array stores every number
\* modulo 256
triggerPackage(oem, key, subkey) ==
    LET hOem == (oem \div 256) % 256
        lOem == oem % 256
        header == <<65, 114, 116, 45, 78, 101, 116, 0, 0, 153, 0, 14, 0, 0,
                    hOem, lOem, key, subkey>>
        payload == [i \in 1..TriggerPayload |-> 0]
        all == header \o payload
    IN [i \in 1..Len(all) |-> ToByte(all[i])]

\* fault: a data frame with Net before SubUni
artdmxPackageNetFirst(a, universe, length) ==
    LET len  == IF length % 2 = 1 THEN length + 1 ELSE length
        hUni == (universe \div 256) % 256
        lUni == universe % 256
        hLen == (len \div 256) % 256
        lLen == len % 256
        header == <<65, 114, 116, 45, 78, 101, 116, 0, 0, 80, 0, 14, 0, 0,
                    hUni, lUni, hLen, lLen>>
        payload == Slice(a, (hLen * 256) + lLen)
    IN header \o [i \in 1..Len(payload) |-> ToByte(payload[i])]

\* artdmxPackage(universe, length) on the buffer a of the universe
artdmxPackage(a, universe, length) ==
    LET len  == IF length % 2 = 1 THEN length + 1 ELSE length
        hUni == (universe \div 256) % 256
        lUni == universe % 256
        hLen == (len \div 256) % 256
        lLen == len % 256
        header == <<65, 114, 116, 45, 78, 101, 116, 0, 0, 80, 0, 14, 0, 0,
                    lUni, hUni, hLen, lLen>>
        payload == Slice(a, (hLen * 256) + lLen)
    IN header \o [i \in 1..Len(payload) |-> ToByte(payload[i])]

(* ---------------- the scheduler ---------------- *)

\* fault: a sleep that resolves at once
sleepNoWait(ms) == 0

\* sleep(ms): the time after which setTimeout resolves the promise
sleep(ms) == ms

\* fault: a refresh that re-arms the timer of every universe
refreshEvery(iv, universe) == [v \in Universes |-> refresh]

\* fault: a refresh that leaves the timer as it is
refreshKeep(iv, universe) == iv

\* refreshInterval(universe): clear the timer and arm a new one
refreshInterval(iv, universe) == [iv EXCEPT ![universe] = refresh]

\* fault: a refresh that leaves the old timer running
clearNothing(h, iv, universe) == h

\* if (this.interval[universe]) clearInterval(this.interval[universe])
clearInterval(h, iv, universe) ==
    IF iv[universe] # NoTimer THEN [h EXCEPT ![universe] = @ - 1] ELSE h

\* setInterval(...): one more timer of the universe
setInterval(h, universe) == [h EXCEPT ![universe] = @ + 1]

\* fault: a send that does not look at the flag
NeverThrottled(universe) == FALSE

\* if (this.throttled[universe]) return Promise.reject(...)
IsThrottled(universe) == throttled[universe]

\* fault: a send that ignores its refresh argument
LengthOfChanges(full, dc, universe) == dc[universe]

\* refresh ? 512 : this.dataChanged[universe]
PackageLength(full, dc, universe) == IF full THEN FullLength ELSE dc[universe]

\* fault: a send that leaves the watermark
KeepChanged(dc, universe) == dc

\* this.dataChanged[universe] = 0
ResetChanged(dc, universe) == [dc EXCEPT ![universe] = 0]

\* fault: a set that always sends
AlwaysSend(dc, universe) == TRUE

\* if (this.dataChanged[universe]) return this.send(universe, false)
NeedsSend(dc, universe) == dc[universe] # 0

\* the positions in 1..512 that the frame f carries
Carried(f) ==
    IF Len(f) - 18 > ChannelCount THEN ChannelCount ELSE Len(f) - 18

\* history: the values handed over once the frame f, built from the buffer
\* a, is handed to the Transport; h and r are handed and reach before it
Handed(h, r, f, a) ==
    LET n == Carried(f)
        m == IF r > n THEN r ELSE n
    IN SubSeq(f, 19, 18 + n) \o SubSeq(h, n + 1, r)
       \o SubSeq(a, m + 1, ChannelCount)

\* the synchronous part of send(universe, refresh), called with the buffers d
\* and watermarks dc its caller left; op and changed describe the caller
send(universe, refreshArg, d, dc, op, changed) ==
    LET full == IF sendAll THEN TRUE ELSE refreshArg IN
    /\ interval' = refreshInterval(interval, universe)
    /\ handles' = setInterval(clearInterval(handles, interval, universe),
                              universe)
    /\ sinceAttempt' = [sinceAttempt EXCEPT ![universe] = 0]
    /\ IF IsThrottled(universe)
       THEN /\ data' = d
            /\ dataChanged' = dc
            /\ dropped' = [dropped EXCEPT ![universe][op] =
                   LET n == Len(artdmxPackage(Allocate(d, universe)[universe],
                                universe, PackageLength(full, dc, universe)))
                            - 18
                   IN IF n > @ THEN n ELSE @]
            /\ ev' = Event(op, universe, "busy", <<>>, changed, NoTimer)
            /\ UNCHANGED <<throttled, cooldown, inflight, owner, held,
                           sinceFrame, handed, reach>>
       ELSE LET d2  == Allocate(d, universe)
                buf == artdmxPackage(d2[universe], universe,
                                     PackageLength(full, dc, universe))
            IN /\ Len(inflight[universe]) < MaxInFlight
               /\ throttled' = [throttled EXCEPT ![universe] = TRUE]
               /\ data' = d2
               /\ dataChanged' = ResetChanged(dc, universe)
               /\ dropped' = [dropped EXCEPT
                                ![universe] = [set |-> 0, timer |-> 0]]
               /\ handed' = [handed EXCEPT
                     ![universe] = Handed(@, reach[universe], buf,
                                          d2[universe])]
               /\ reach' = [reach EXCEPT
                     ![universe] = IF Carried(buf) > @ THEN Carried(buf)
                                   ELSE @]
               /\ inflight' = [inflight EXCEPT ![universe] = Append(@, "sleep")]
               /\ owner' = [owner EXCEPT ![universe] = Append(@, op)]
               /\ UNCHANGED held
               /\ cooldown' = [cooldown EXCEPT ![universe] = sleep(SleepMs)]
               /\ sinceFrame' = [sinceFrame EXCEPT ![universe] = 0]
               /\ ev' = Event(op, universe, "sent", buf, changed,
                               sinceFrame[universe])

\* set(value, channel, universe)
set(c) ==
    LET u  == c.universe
        d1 == Allocate(data, u)
        w  == SetWrite(d1[u], dataChanged[u], c)
        d2 == [d1 EXCEPT ![u] = w.a]
        dc == [dataChanged EXCEPT ![u] = w.wm]
        changed == w.a # d1[u]
    IN /\ IF NeedsSend(dc, u)
          THEN send(u, FALSE, d2, dc, "set", changed)
          ELSE /\ data' = d2
               /\ dataChanged' = dc
               /\ ev' = Event("set", u, "noop", <<>>, changed, NoTimer)
               /\ UNCHANGED <<throttled, interval, handles, dropped, handed,
                              reach, cooldown, inflight, owner, held,
                              sinceFrame, sinceAttempt>>
       /\ UNCHANGED <<host, port, calls, env, refresh, sendAll, closed>>

\* the callback of setInterval: void this.send(universe, true)
TimerFire(u) ==
    /\ interval[u] = 0
    /\ send(u, TRUE, data, dataChanged, "timer", FALSE)
    /\ UNCHANGED <<host, port, calls, env, refresh, sendAll, closed>>

\* fault: a send that awaits the report of the Transport before it clears
\* the flag
CooldownAfterReport(u) ==
    /\ cooldown[u] = 0
    /\ inflight[u] = <<>>
    /\ throttled' = [throttled EXCEPT ![u] = FALSE]
    /\ cooldown' = [cooldown EXCEPT ![u] = NoTimer]
    /\ held' = [held EXCEPT ![u] = NoOutcome]
    /\ ev' = Outcome("cooldown", u, "none", held[u].to, held[u].val)
    /\ UNCHANGED <<host, port, calls, env, refresh, sendAll, data,
                   dataChanged, interval, handles, dropped, handed, reach,
                   inflight, owner, sinceFrame, sinceAttempt, closed>>

\* send after await sleep(25): this.throttled[universe] = false; return
\* promise: the promise of send settles here if the Transport has reported
CooldownExpire(u) ==
    /\ cooldown[u] = 0
    /\ throttled' = [throttled EXCEPT ![u] = FALSE]
    /\ cooldown' = [cooldown EXCEPT ![u] = NoTimer]
    /\ inflight' = [inflight EXCEPT ![u] = [i \in 1..Len(@) |-> "wait"]]
    /\ held' = [held EXCEPT ![u] = NoOutcome]
    /\ ev' = Outcome("cooldown", u, "none", held[u].to, held[u].val)
    /\ UNCHANGED <<host, port, calls, env, refresh, sendAll, data,
                   dataChanged, interval, handles, dropped, handed, reach,
                   owner, sinceFrame, sinceAttempt, closed>>

\* fault: a callback of socket.send that drops the error
ResolvedNull(outcome) == "ok"

\* resolve as the callback of socket.send: the promise is resolved with the
\* error or with null
Resolved(outcome) == outcome

\* the Transport reports the oldest frame of the universe (the callback of
\* socket.send resolves the promise, with null or with an error); the
\* promise of send settles here if its sleep(25) is over
TransportComplete(u, outcome) ==
    /\ inflight[u] # <<>>
    /\ inflight' = [inflight EXCEPT ![u] = Tail(@)]
    /\ owner' = [owner EXCEPT ![u] = Tail(@)]
    /\ IF Head(inflight[u]) = "wait"
       THEN /\ ev' = Outcome("complete", u, outcome, Head(owner[u]),
                             Resolved(outcome))
            /\ UNCHANGED held
       ELSE /\ held' = [held EXCEPT ![u] = [to |-> Head(owner[u]),
                                            val |-> Resolved(outcome)]]
            /\ ev' = Event("complete", u, outcome, <<>>, FALSE, NoTimer)
    /\ UNCHANGED <<host, port, calls, env, refresh, sendAll, data,
                   dataChanged, throttled, interval, handles, dropped,
                   handed, reach, cooldown, sinceFrame, sinceAttempt,
                   closed>>

\* close(): clearInterval on every index of this.interval, socket.close()
close ==
    /\ interval' = [u \in Universes |-> NoTimer]
    /\ handles' = [u \in Universes |->
                     clearInterval(handles, interval, u)[u]]
    /\ closed' = TRUE
    /\ ev' = Event("close", 0, "none", <<>>, FALSE, NoTimer)
    /\ UNCHANGED <<host, port, calls, env, refresh, sendAll, data,
                   dataChanged, throttled, dropped, handed, reach, cooldown,
                   inflight, owner, held, sinceFrame, sinceAttempt>>

\* the timers that are armed, as the times until they fire
Armed ==
    {interval[u] : u \in {v \in Universes : interval[v] # NoTimer}}
    \cup {cooldown[u] : u \in {v \in Universes : cooldown[v] # NoTimer}}

\* time passes, up to the next timer that is due
Tick ==
    /\ 0 \notin Armed
    /\ LET d == Min({TimeStep} \cup Armed)
           Cap(t) == IF t > SleepMs THEN SleepMs ELSE t
       IN /\ interval' = [u \in Universes |->
                IF interval[u] = NoTimer THEN NoTimer ELSE interval[u] - d]
          /\ cooldown' = [u \in Universes |->
                IF cooldown[u] = NoTimer THEN NoTimer ELSE cooldown[u] - d]
          /\ sinceFrame' = [u \in Universes |->
                IF sinceFrame[u] = NoTimer THEN NoTimer
                ELSE Cap(sinceFrame[u] + d)]
          /\ sinceAttempt' = [u \in Universes |->
                IF sinceAttempt[u] = NoTimer THEN NoTimer
                ELSE IF sinceAttempt[u] + d > refresh THEN refresh
                ELSE sinceAttempt[u] + d]
    /\ ev' = Event("tick", 0, "none", <<>>, FALSE, NoTimer)
    /\ UNCHANGED <<host, port, calls, env, refresh, sendAll, data,
                   dataChanged, throttled, handles, dropped, handed, reach,
                   inflight, owner, held, closed>>

\* fault: a setPort that takes no host for the broadcast address
NeverBroadcast(h) == FALSE

\* this.host === "255.255.255.255"
IsBroadcast(h) == h = Broadcast

\* setHost(host)
setHost(h) ==
    /\ host' = h
    /\ ev' = Event("setHost", 0, "none", <<>>, FALSE, NoTimer)
    /\ UNCHANGED <<port, calls, env, refresh, sendAll, data, dataChanged,
                   throttled, interval, handles, dropped, handed, reach,
                   cooldown, inflight, owner, held, sinceFrame, sinceAttempt,
                   closed>>

\* setPort(port): throws while the host is the broadcast address
setPort(p) ==
    /\ IF IsBroadcast(host)
       THEN /\ ev' = Event("setPort", 0, "throw", <<>>, FALSE, NoTimer)
            /\ UNCHANGED port
       ELSE /\ port' = p
            /\ ev' = Event("setPort", 0, "none", <<>>, FALSE, NoTimer)
    /\ UNCHANGED <<host, calls, env, refresh, sendAll, data, dataChanged,
                   throttled, interval, handles, dropped, handed, reach,
                   cooldown, inflight, owner, held, sinceFrame, sinceAttempt,
                   closed>>

\* trigger(oem, key, subkey): the frame goes to the socket, never throttled
trigger(oem, key, subkey) ==
    /\ ev' = Event("trigger", 0, "trigger", triggerPackage(oem, key, subkey),
                   FALSE, NoTimer)
    /\ UNCHANGED <<host, port, calls, env, refresh, sendAll, data,
                   dataChanged, throttled, interval, handles, dropped,
                   handed, reach, cooldown, inflight, owner, held,
                   sinceFrame, sinceAttempt, closed>>

\* artdmxPackage(universe, length) called on its own: it allocates the
\* buffer of the universe and returns the frame.  The buffers of the
\* universes outside Universes are not kept in the state.
package(universe, length) ==
    LET d == IF universe \in Universes THEN Allocate(data, universe) ELSE data
        a == IF universe \in Universes THEN d[universe]
             ELSE <<>> \o [i \in 1..ChannelCount |-> 0]
    IN /\ data' = d
       /\ ev' = Event("package", universe, "none",
                      artdmxPackage(a, universe, length), FALSE, NoTimer)
       /\ UNCHANGED <<host, port, calls, env, refresh, sendAll, dataChanged,
                      throttled, interval, handles, dropped, handed, reach,
                      cooldown, inflight, owner, held, sinceFrame,
                      sinceAttempt, closed>>

Next ==
    \/ \E c \in calls : set(c)
    \/ \E u \in Universes : TimerFire(u)
    \/ \E u \in Universes : CooldownExpire(u)
    \/ \E u \in Universes, o \in env.outcomes : TransportComplete(u, o)
    \/ env.closes /\ close
    \/ Tick

Spec == Init /\ [][Next]_vars

\* a caller that, at one instant, also changes host and port and applies
\* the two encoders
ApiNext ==
    \/ \E c \in calls : set(c)
    \/ \E h \in Hosts : setHost(h)
    \/ \E p \in Ports : setPort(p)
    \/ \E t \in TriggerCalls : trigger(t[1], t[2], t[3])
    \/ \E u \in PackageUniverses, n \in PackageLengths : package(u, n)

ApiSpec == Init /\ [][ApiNext]_vars

(* ======================= the claims ======================= *)

\* the in-flight frames of universe u whose send is still at await sleep(25)
Cooling(u) == {i \in 1..Len(inflight[u]) : inflight[u][i] = "sleep"}

\* C1 as stated: for every universe at most one data-frame send is in flight
\* (handed to the Transport and not yet reported) at every instant, also when
\* the Transport takes longer than the cooldown.
C1_OneInFlight == \A u \in Universes : Len(inflight[u]) <= 1

\* C1 as amended: for every universe at most one in-flight send is still
\* within its cooldown (its send has not yet cleared throttled), and throttled
\* is true while there is one; sends overlap in flight only once the
\* cooldown of the earlier one has expired.
C1_OneCoolingInFlight ==
    \A u \in Universes :
        /\ Cardinality(Cooling(u)) <= 1
        /\ Cooling(u) # {} => throttled[u] /\ cooldown[u] # NoTimer
        /\ \A i \in Cooling(u) : i = Len(inflight[u])

\* C1 witness: two sends of universe 0 overlap in flight, the earlier one past
\* its cooldown and the later one within it
C1_Witness == inflight[0] = <<"wait", "sleep">> /\ throttled[0]

\* C2: for every universe, a data frame is handed to the Transport (by set or
\* by the refresh timer) only when no frame of the universe was handed over
\* before or the one before it was handed over at least SleepMs time units
\* earlier.
C2_MinGap ==
    (ev.res = "sent" /\ ev.op \in {"set", "timer"}) =>
        ev.gap \in {NoTimer, SleepMs}

\* C2 witness: a frame triggered by set is handed over once the gap since
\* the frame before it has passed, after an earlier call was rejected
C2_Witness ==
    /\ ev.res = "sent" /\ ev.op = "set" /\ ev.gap = SleepMs
    /\ data[0] # <<>> /\ data[0][1] = 255 /\ data[0][2] = 10

\* C3 as stated: in every state, a set whose values all equal the stored
\* values does not call send, hands no frame to the Transport, leaves the
\* watermark unchanged and reports success.
C3_IdenticalSetSilent ==
    [][(ev'.op = "set" /\ ~ev'.changed) =>
          /\ ev'.res = "noop"
          /\ dataChanged' = dataChanged
          /\ interval' = interval
          /\ inflight' = inflight]_vars

\* C3 as amended: a set whose values all equal the stored values, called
\* while the watermark of the universe is 0, does not call send, hands no
\* frame to the Transport, leaves the watermark unchanged and reports
\* success; called while the watermark is not 0 (an earlier set was rejected
\* as Busy), it calls send.
C3_IdenticalSetAtZero ==
    [][(ev'.op = "set" /\ ~ev'.changed) =>
          IF dataChanged[ev'.u] = 0
          THEN /\ ev'.res = "noop"
               /\ dataChanged' = dataChanged
               /\ interval' = interval
               /\ sinceAttempt' = sinceAttempt
               /\ inflight' = inflight
          ELSE /\ ev'.res \in {"sent", "busy"}
               /\ sinceAttempt'[ev'.u] = 0]_vars

\* C3 witness: a set of values equal to the stored ones reported success
\* without sending, after frames of the universe were sent
C3_Witness ==
    /\ ev.op = "set" /\ ~ev.changed /\ ev.res = "noop"
    /\ data[0] # <<>> /\ data[0][1] = 255
    /\ sinceFrame[0] # NoTimer /\ dataChanged[0] = 0

\* C4 as stated: after any send attempt, triggered by a set that changed a
\* value or by the refresh timer, the watermark of the universe is 0.
C4_ZeroAfterAttempt ==
    (ev.op \in {"set", "timer"} /\ ev.res \in {"sent", "busy"}) =>
        dataChanged[ev.u] = 0

\* C4 as amended: after any send that is not rejected as Busy the watermark
\* of the universe is 0 at once (when the frame is handed over, the Transport
\* not having reported), and a watermark that is 0 stays 0 until a set
\* stores a value that differs from the stored one.
C4_ZeroUntilDifferingSet ==
    [][/\ ev'.res = "sent" =>
            dataChanged'[ev'.u] = 0 /\ inflight'[ev'.u] # <<>>
       /\ \A u \in Universes :
            (dataChanged[u] = 0 /\ dataChanged'[u] # 0) =>
                (ev'.op = "set" /\ ev'.u = u /\ ev'.changed)]_vars

\* C4 witness: a set that changed a value has handed its frame over, the
\* Transport has reported nothing, and the watermark is 0
C4_Witness ==
    /\ ev.op = "set" /\ ev.changed /\ ev.res = "sent"
    /\ inflight[0] # <<>> /\ dataChanged[0] = 0 /\ data[0][2] = 10


\* C5 as stated: in every state and for every universe the watermark is
\* between 0 and 512 and the channel buffer, once allocated, holds exactly
\* 512 values, whatever channel (>= 1) and values set was called with.
C5_BufferBounds ==
    \A u \in Universes :
        /\ dataChanged[u] \in 0..ChannelCount
        /\ data[u] # <<>> => Len(data[u]) = ChannelCount

\* the length field of a data frame: bytes 16 and 17, high byte first
LengthField(f) == (f[17] * 256) + f[18]

\* C6 as stated: every data frame handed to the Transport has a length field
\* equal to the number of payload bytes that follow the 18-byte header, and
\* that length is even and between 2 and 512.
C6_LengthField ==
    ev.res = "sent" =>
        /\ LengthField(ev.frame) = Len(ev.frame) - 18
        /\ LengthField(ev.frame) % 2 = 0
        /\ LengthField(ev.frame) \in 2..FullLength

\* C7: a send requested while the throttled flag of the universe is true is
\* rejected as Busy and hands no frame to the Transport; a send requested
\* while the flag is false is never rejected; and when the send of a set is
\* rejected, the values of that set are stored in the channel buffer.
C7_BusyIffThrottled ==
    [][/\ (ev'.op \in {"set", "timer"} /\ ev'.res # "noop") =>
            IF throttled[ev'.u]
            THEN /\ ev'.res = "busy"
                 /\ ev'.frame = <<>>
                 /\ inflight' = inflight
                 /\ sinceFrame' = sinceFrame
            ELSE /\ ev'.res = "sent"
                 /\ ev'.frame # <<>>
                 /\ Len(inflight'[ev'.u]) = Len(inflight[ev'.u]) + 1
       /\ \A c \in calls :
            (set(c) /\ ev'.res = "busy") =>
                \A i \in 1..Len(c.vals) :
                    data'[c.universe][c.channel + i - 1] = c.vals[i]]_vars

\* C7 witness: set(255, 1, 0), then set(10, 2, 0) at the same instant: the
\* second is rejected and the buffer starts 255, 10, 0
C7_Witness ==
    /\ ev.op = "set" /\ ev.res = "busy" /\ ev.changed
    /\ data[0][1] = 255 /\ data[0][2] = 10 /\ data[0][3] = 0
    /\ dataChanged[0] = 2 /\ sinceFrame[0] = 0

\* C8: a set, a send, a firing of the refresh timer or the end of a cooldown
\* of universe u leaves the buffer, the watermark, the throttled flag and the
\* refresh timer of every other universe as they were, and a send of u is
\* rejected as Busy only when the flag of u itself is set.
C8_Independent ==
    [][\A u \in Universes :
          (ev'.op \in {"set", "timer", "cooldown"} /\ ev'.u = u) =>
             /\ \A v \in Universes \ {u} :
                   /\ data'[v] = data[v]
                   /\ dataChanged'[v] = dataChanged[v]
                   /\ throttled'[v] = throttled[v]
                   /\ interval'[v] = interval[v]
             /\ ev'.res = "busy" => throttled[u]]_vars

\* C8 witness: sets on universes 0 and 1 at the same instant both transmit
C8_Witness ==
    /\ ev.op = "set" /\ ev.u = 1 /\ ev.res = "sent"
    /\ sinceFrame[0] = 0 /\ throttled[0] /\ inflight[0] # <<>>
    /\ interval[0] = refresh

\* C9 as stated: while the connection is not closed, every firing of the
\* refresh timer of a universe transmits one full-length frame.
C9_RefreshAlways ==
    (ev.op = "timer" /\ ~closed) =>
        (ev.res = "sent" /\ Len(ev.frame) = 18 + FullLength)

\* C9 as amended: while the connection is not closed, a universe that has
\* had a send attempt has its refresh timer armed to fire one refresh period
\* after the latest attempt; when the refresh period is longer than the
\* cooldown, the timer fires when the universe has had no attempt for a full
\* period, transmits one frame with a 512-byte payload and is armed again
\* for the next period.
C9_RefreshWhenIdle ==
    [][/\ (ev'.op = "timer" /\ ~closed /\ refresh > SleepMs) =>
            /\ sinceAttempt[ev'.u] = refresh
            /\ ev'.res = "sent"
            /\ Len(ev'.frame) = 18 + FullLength
            /\ LengthField(ev'.frame) = FullLength
            /\ interval'[ev'.u] = refresh
       /\ \A u \in Universes :
            (~closed' /\ sinceAttempt'[u] # NoTimer) =>
                interval'[u] = refresh - sinceAttempt'[u]]_vars

\* C9 witness: the refresh timer of an idle universe has fired and a full
\* frame was handed over, the frame before it being a cooldown or more ago
C9_Witness ==
    /\ ev.op = "timer" /\ ev.res = "sent" /\ ~closed /\ ~sendAll
    /\ refresh > SleepMs /\ Len(ev.frame) = 18 + FullLength
    /\ ev.gap = SleepMs /\ interval[ev.u] = refresh

\* C10 as stated: once close() was called no refresh timer is armed for any
\* universe and no frame is handed to the Transport.
C10_QuietAfterClose ==
    closed => /\ \A u \in Universes : interval[u] = NoTimer
              /\ ev.res # "sent"

\* the 8-byte protocol ID: "Art-Net" and a zero byte
ProtocolId == <<65, 114, 116, 45, 78, 101, 116, 0>>

\* the state of the universes and of the connection
Core == <<data, dataChanged, throttled, interval, cooldown, inflight, closed>>

\* C11: setPort(p) is rejected with an error whenever the host is the
\* broadcast address 255.255.255.255, and then host, port and the state of
\* every universe are unchanged; with any other host it sets the port to p
\* and changes nothing else.
C11_SetPort ==
    [][\A p \in Ports :
          setPort(p) =>
             /\ host' = host
             /\ Core' = Core
             /\ IF host = "255.255.255.255"
                THEN ev'.res = "throw" /\ port' = port
                ELSE ev'.res = "none" /\ port' = p]_vars

\* C11 witnesses: setPort was rejected with universe 0 throttled; setPort
\* changed the port of a host that only ends in 255
C11_Witness ==
    /\ ev.op = "setPort" /\ ev.res = "throw" /\ host = Broadcast
    /\ throttled[0] /\ data[0][1] = 255

C11_WitnessSet ==
    /\ ev.op = "setPort" /\ ev.res = "none" /\ host = "10.0.0.255"
    /\ port = DefaultPort + 1

\* C13: a trigger frame built by triggerPackage(oem, key, subkey) has 530
\* bytes for every argument combination: the protocol ID, opcode bytes 0,
\* 0x99, version bytes 0, 0x0E, two zero bytes, (oem >> 8) & 0xFF,
\* oem & 0xFF, key, subkey (each as one byte, so modulo 256), then 512 zero
\* bytes; building it changes no state of the scheduler or of the buffers.
C13_TriggerFrame ==
    [][\A t \in TriggerCalls :
          ev'.op = "trigger" /\ trigger(t[1], t[2], t[3]) =>
             /\ Len(ev'.frame) = 530
             /\ SubSeq(ev'.frame, 1, 18) =
                  ProtocolId \o <<0, 153, 0, 14, 0, 0,
                                  (t[1] \div 256) % 256, t[1] % 256,
                                  t[2] % 256, t[3] % 256>>
             /\ \A i \in 19..530 : ev'.frame[i] = 0
             /\ Core' = Core
             /\ <<host, port>>' = <<host, port>>]_vars

\* C13 witness: the frame of trigger(0x1234, 1, 2), built while universe 0
\* is throttled with a change pending
C13_Witness ==
    /\ ev.op = "trigger" /\ Len(ev.frame) = 530
    /\ ev.frame[15] = 18 /\ ev.frame[16] = 52
    /\ ev.frame[17] = 1 /\ ev.frame[18] = 2
    /\ throttled[0] /\ dataChanged[0] > 0

\* the length artdmxPackage encodes: length rounded up to an even number
Even(n) == IF n % 2 = 1 THEN n + 1 ELSE n

\* C14: for every universe in 0..32767 and every length, the header of the
\* data frame is the protocol ID, opcode bytes 0, 0x50, version bytes 0,
\* 0x0E, sequence 0, physical 0, byte 14 = universe & 0xFF, byte 15 =
\* (universe >> 8) & 0xFF, bytes 16-17 the length of the frame (the length
\* asked for, made even) high byte first; bytes 14 and 15 determine the
\* universe, so distinct universes give distinct pairs.
C14_DataHeader ==
    [][\A u \in PackageUniverses, n \in PackageLengths :
          ev'.op = "package" /\ ev'.u = u /\ package(u, n) =>
             /\ SubSeq(ev'.frame, 1, 14) =
                  ProtocolId \o <<0, 80, 0, 14, 0, 0>>
             /\ ev'.frame[15] = u % 256
             /\ ev'.frame[16] = (u \div 256) % 256
             /\ (ev'.frame[16] * 256) + ev'.frame[15] = u
             /\ ev'.frame[17] = Even(n) \div 256
             /\ ev'.frame[18] = Even(n) % 256
             /\ Len(ev'.frame) = 18 + Even(n)]_vars

\* C14 witness: the frame of universe 32767 with length 511
C14_Witness ==
    /\ ev.op = "package" /\ ev.u = 32767
    /\ ev.frame[15] = 255 /\ ev.frame[16] = 127
    /\ ev.frame[17] = 2 /\ ev.frame[18] = 0

\* the payload of a data frame: what follows the 18 bytes of the header
Payload(f) == SubSeq(f, 19, Len(f))

\* the sequence p is the first n values of the buffer a, as bytes
FirstBytes(p, a, n) ==
    /\ Len(p) = n
    /\ Len(a) >= n
    /\ \A i \in 1..n : p[i] = ToByte(a[i])

\* C12: the payload length chosen by a send that is not Busy is 512 when the
\* send is forced full (refresh timer) or sendAll is configured, and
\* otherwise the highWatermark at the moment of the send rounded up to the
\* next even number; the payload is the first that many values of the
\* buffer.
C12_PayloadLength ==
    [][/\ \A c \in calls :
             set(c) /\ ev'.res = "sent" =>
                LET u  == c.universe
                    wm == SetWrite(Allocate(data, u)[u], dataChanged[u], c).wm
                    n  == IF sendAll THEN 512 ELSE Even(wm)
                IN /\ n >= 2
                   /\ LengthField(ev'.frame) = n
                   /\ FirstBytes(Payload(ev'.frame), data'[u], n)
       /\ \A u \in Universes :
             TimerFire(u) /\ ev'.res = "sent" =>
                /\ LengthField(ev'.frame) = 512
                /\ FirstBytes(Payload(ev'.frame), data'[u], 512)]_vars

\* C15: every send attempt of a universe, from set or from the refresh
\* timer, Busy or not, clears the refresh timer of the universe and arms a
\* new one with the full period; before close exactly one refresh timer is
\* armed for every universe that has had a send attempt and none for the
\* others; the timer fires only when a full refresh period has passed since
\* the most recent send attempt of its universe.
C15_Rearm ==
    [][/\ ev'.op \in {"set", "timer"} /\ ev'.res \in {"sent", "busy"} =>
             /\ interval'[ev'.u] = refresh
             /\ sinceAttempt'[ev'.u] = 0
             /\ handles'[ev'.u] = 1
       /\ ~closed' =>
             \A u \in Universes :
                /\ handles'[u] = IF sinceAttempt'[u] # NoTimer THEN 1 ELSE 0
                /\ interval'[u] # NoTimer <=> sinceAttempt'[u] # NoTimer
       /\ \A u \in Universes :
             TimerFire(u) => sinceAttempt[u] = refresh]_vars

\* C15 witnesses: a set that was Busy re-armed the timer that was half way;
\* the timer fired a full period after a Busy set
C15_Witness ==
    /\ ev.op = "set" /\ ev.res = "busy" /\ ~closed
    /\ sinceFrame[ev.u] > 0
    /\ interval[ev.u] = refresh /\ handles[ev.u] = 1

C15_WitnessFire ==
    /\ ev.op = "timer" /\ ev.res = "sent" /\ ~closed
    /\ ev.gap < refresh /\ ev.gap # NoTimer

\* what a Busy send leaves alone in any case: the flag, the cooldown, the
\* frames in flight, and buffer and watermark as its caller left them
BusyLeaves(u) ==
    /\ throttled[u] /\ throttled'[u]
    /\ cooldown' = cooldown
    /\ inflight' = inflight
    /\ sinceFrame' = sinceFrame
    /\ \A c \in calls :
          set(c) =>
             LET w == SetWrite(Allocate(data, u)[u], dataChanged[u], c)
             IN dataChanged'[u] = w.wm /\ data'[u] = w.a
    /\ ev'.op = "timer" => dataChanged' = dataChanged /\ data' = data

\* C16 as stated: a send rejected as Busy leaves the throttled flag, the
\* highWatermark and the armed refresh timer, with the time remaining until
\* it fires, exactly as they were before the request, and queues nothing.
C16_BusyNoEffect ==
    [][\A u \in Universes :
          ev'.res = "busy" /\ ev'.u = u =>
             /\ BusyLeaves(u)
             /\ ev'.op = "set" /\ ~closed => interval'[u] = interval[u]]_vars

\* C16 amended: a send rejected as Busy has re-armed the refresh timer of
\* the universe with the full refresh period (one timer, as before), and
\* leaves the throttled flag, the highWatermark and the cooldown as they
\* were before the request, and queues nothing.
C16_BusyRearms ==
    [][\A u \in Universes :
          ev'.res = "busy" /\ ev'.u = u =>
             /\ BusyLeaves(u)
             /\ interval'[u] = refresh
             /\ handles'[u] = 1]_vars

\* C16 witness: a set with a pending change was Busy part way through the
\* cooldown, and the timer has the full period again
C16_Witness ==
    /\ ev.op = "set" /\ ev.res = "busy"
    /\ dataChanged[ev.u] > 0 /\ throttled[ev.u]
    /\ cooldown[ev.u] \in 1..(SleepMs - 1)
    /\ interval[ev.u] = refresh

\* C17: while a universe is throttled the sleep(25) of the send that set
\* the flag is pending, with 25 minus the time since that send was initiated
\* left; when it is due, clearing the flag is enabled whatever the Transport
\* has or has not reported, and time does not pass it; the flag is false
\* after it.  So the flag is never true more than 25 units after the send,
\* and a send that is Busy is within the cooldown of the latest frame.
C17_CooldownClears ==
    \A u \in Universes :
       /\ throttled[u] <=> cooldown[u] # NoTimer
       /\ throttled[u] =>
             /\ cooldown[u] \in 0..SleepMs
             /\ sinceFrame[u] = SleepMs - cooldown[u]
       /\ cooldown[u] = 0 => ENABLED CooldownExpire(u)
       /\ ev.op = "cooldown" /\ ev.u = u => ~throttled[u]
       /\ ev.res = "busy" /\ ev.u = u =>
             throttled[u] /\ sinceFrame[u] \in 0..SleepMs

\* C17 witness: the flag was cleared with the frame still unreported
C17_Witness ==
    /\ ev.op = "cooldown" /\ ~throttled[ev.u]
    /\ inflight[ev.u] # <<>> /\ sinceFrame[ev.u] = SleepMs

\* C17 witness: a set after the cooldown hands a frame over while the
\* frame before it is still unreported
C17_WitnessNextSet ==
    /\ ev.op = "set" /\ ev.res = "sent" /\ Len(inflight[ev.u]) = 2

\* the frame f carries the values the buffer a holds at positions 1..n
Carries(f, a, n) ==
    /\ Len(f) - 18 >= n
    /\ Len(a) >= n
    /\ \A p \in 1..n : f[18 + p] = ToByte(a[p])

\* the most positions a frame would have carried that was dropped, by a
\* Busy send of set or of the timer, since the last frame of the universe
DroppedPositions(u) ==
    IF dropped[u].set > dropped[u].timer THEN dropped[u].set
    ELSE dropped[u].timer

\* C18 as stated, for dropped frames: the next data frame handed to the
\* Transport for the universe, change- or refresh-triggered, carries the
\* current buffer value of every position that a frame dropped as Busy
\* before it would have carried.
C18_NextFrameCovers ==
    [][\A u \in Universes :
          ev'.res = "sent" /\ ev'.u = u =>
             Carries(ev'.frame, data'[u], DroppedPositions(u))]_vars

\* C18 amended: the next data frame of the universe carries the current
\* value of every position in 1..512 that a frame dropped by a Busy send of
\* set would have carried; a refresh-triggered frame, and every frame with
\* sendAll, carries the current values of all 512 positions, so it also
\* covers a dropped refresh frame and a frame that failed in the Transport.
C18_SetDropCovered ==
    [][\A u \in Universes :
          ev'.res = "sent" /\ ev'.u = u =>
             /\ Carries(ev'.frame, data'[u],
                        IF dropped[u].set > 512 THEN 512 ELSE dropped[u].set)
             /\ ev'.op = "timer" \/ sendAll =>
                   Carries(ev'.frame, data'[u], 512)]_vars

\* C18 witness: a set that stored nothing new handed over a frame of more
\* than two positions: the watermark a Busy set before it had left
C18_Witness ==
    /\ ev.op = "set" /\ ev.res = "sent" /\ ~ev.changed /\ ~sendAll
    /\ Len(ev.frame) > 20
    /\ dropped[ev.u].set = 0

\* C18 witness: a refresh frame handed over after a frame had failed
C18_WitnessRefresh ==
    /\ ev.op = "timer" /\ ev.res = "sent" /\ Len(ev.frame) = 530

\* C19: when the Transport reports an error for a frame, the promise of
\* the send settles with that error and goes to the caller of the send, the
\* set call that triggered it (nowhere for a frame of the refresh timer):
\* at the report if the sleep(25) of the send is over, and otherwise at the
\* end of that sleep, until which the report is held; the report changes
\* neither buffer nor highWatermark nor the throttled flag and its cooldown
\* nor the refresh timer.
C19_ErrorToCaller ==
    [][\A u \in Universes :
          /\ ev'.op = "complete" /\ ev'.res = "error" /\ ev'.u = u =>
                /\ <<data, dataChanged, throttled, cooldown, interval,
                     dropped>>' =
                   <<data, dataChanged, throttled, cooldown, interval,
                     dropped>>
                /\ IF Head(inflight[u]) = "wait"
                   THEN /\ ev'.to = Head(owner[u]) /\ ev'.val = "error"
                        /\ held' = held
                   ELSE /\ ev'.to = "none"
                        /\ held'[u] = [to |-> Head(owner[u]), val |-> "error"]
                        /\ throttled[u] /\ cooldown[u] # NoTimer
          /\ held[u] # NoOutcome =>
                \/ held'[u] = held[u] /\ cooldown'[u] # NoTimer
                \/ /\ ev'.op = "cooldown" /\ ev'.u = u
                   /\ ev'.to = held[u].to /\ ev'.val = held[u].val
                   /\ held'[u] = NoOutcome /\ ~throttled'[u]]_vars

\* C19 witness: the error of a frame of set, reported during the sleep,
\* reached the set call at the end of the sleep; buffer as set wrote it
C19_Witness ==
    /\ ev.op = "cooldown" /\ ev.to = "set" /\ ev.val = "error"
    /\ data[ev.u] # <<>> /\ data[ev.u][1] = 255
    /\ ~throttled[ev.u] /\ dataChanged[ev.u] = 0

\* C19 witness: the error reached the set call at the report, after the
\* sleep
C19_WitnessLate ==
    /\ ev.op = "complete" /\ ev.to = "set" /\ ev.val = "error"

\* the value the buffer of universe u holds at position p: a buffer not
\* yet allocated is filled with 0 when it is first read
Stored(u, p) == IF data[u] = <<>> THEN 0 ELSE data[u][p]

\* C20: in every reachable state and for every universe, every position p
\* in 1..512 above the highWatermark holds the value most recently handed
\* to the Transport for p in a frame of the universe, or, if no frame has
\* carried p, the value it had when the last frame was handed over (0 if
\* there was none): every change not yet handed over lies at or below the
\* watermark, also across Busy rejections.
C20_UnsentBelowWatermark ==
    \A u \in Universes :
       /\ Len(handed[u]) = ChannelCount
       /\ \A p \in 1..ChannelCount :
             p > dataChanged[u] => Stored(u, p) = handed[u][p]

\* C20 witness: after a Busy set, position 1 holds a value not yet handed
\* over, at the watermark, and position 2 above it the value of the frame
C20_Witness ==
    /\ ev.op = "set" /\ ev.res = "busy" /\ ev.u = 0
    /\ dataChanged[0] = 1 /\ data[0][1] # handed[0][1]
    /\ data[0][2] = 10 /\ handed[0][2] = 10 /\ reach[0] = 2

====
